---- MODULE Spec2Model ----
(***************************************************************************)
(* Model of the websocket client multiplexer (src/src/lib.rs): the poll    *)
(* thread, the WebSocketPacket buffer wrapper, the shared receivers map    *)
(* and the WebSocketService handle.                                        *)
(*                                                                         *)
(* An Option<NonZeroUsize> is modelled as a sequence: <<>> is None and     *)
(* <<n>> is Some(n).  A xous::MemoryRange is a record [addr, len]; every   *)
(* successful map_memory call returns a range with a fresh addr, so addr   *)
(* also numbers the iterations of the poll loop.                           *)
(***************************************************************************)
EXTENDS Integers, Sequences, FiniteSets, TLC

\* ---------------------------------------------------------------- bounds
\* Number of buffers the poll thread may map (iterations of the loop).
MaxBuffers == 2
\* Number of channels the registration side may create.
MaxChannels == 2
\* Number of clone() calls on the service handle.
MaxClones == 1

\* ------------------------------------------------------ program constants
\* Size passed to xous::map_memory (lib.rs:76).
BufferSize == 4096
\* Largest value of the u16 inside WebSocketFd (lib.rs:8).
U16Max == 65535

\* ------------------------------------------------------------ input sets
\* Handles the registration side registers.
Handles == {0, 7}
\* `offset` words the server may attach to the returned memory.
Offsets == {<<>>, <<7>>, <<65543>>}
\* `valid` words the server may attach to the returned memory.
Valids == {<<>>, <<42>>, <<5000>>}
\* Connection ids xous::connect may hand out for the server name.
Cids == {"cid1"}

NoBuffer == [addr |-> 0, len |-> 0]
NoResponse == [shape |-> "None", offset |-> <<>>, valid |-> <<>>]
NoFd == -1
\* HashMap::new()
EmptyMap == [h \in {} |-> 0]

VARIABLES
    conn,       \* "none" | "ok" | "error": outcome of xous::connect in new()
    svc,        \* the WebSocketService values alive (the original and its clones)
    thread,     \* arguments of every spawned websocket_poll_thread
    receivers,  \* contents of the HashMap<WebSocketFd, WebSocketReceiver>: fd -> channel
    lock,       \* holder of the Mutex around the map: "free" | "poll"
    pc,         \* position of the poll thread
    fault,      \* panic message of the poll thread, "none" while it runs
    nbuf,       \* number of successful map_memory calls
    buffer,     \* the poll thread's local `buffer`
    response,   \* the poll thread's local `response`
    target_fd,  \* the poll thread's local `target_fd`
    unmaps,     \* addr -> number of unmap_memory calls applied to that range
    route,      \* addr -> branch the iteration that mapped it took (history)
    chan,       \* the mpsc channels: [fd, rx, queue, got]
    slice       \* the last typed view taken of a packet: [packet, call, size, len]

vars == <<conn, svc, thread, receivers, lock, pc, fault, nbuf, buffer, response,
          target_fd, unmaps, route, chan, slice>>

Buffers == 1..MaxBuffers

\* ------------------------------------------------------------ pure helpers
Min(a, b) == IF a <= b THEN a ELSE b

\* Option::map(|v| v.get()).unwrap_or_default() / unwrap_or(0)
UnwrapOr(opt, d) == IF opt = <<>> THEN d ELSE opt[1]

\* usize -> u16 `try_into()`: <<>> is Err(TryFromIntError), <<n>> is Ok(n)
TruncU16(n) == <<n % (U16Max + 1)>>
TryIntoU16(n) == IF n <= U16Max THEN <<n>> ELSE <<>>

\* WebSocketPacket::new without the clamp, and with the hint ignored
NewUnclamped(backing, valid) == [backing |-> backing, valid |-> UnwrapOr(valid, 0)]
NewIgnoringValid(backing, valid) == [backing |-> backing, valid |-> backing.len]

\* WebSocketPacket::new
WebSocketPacketNew(backing, valid) ==
    [backing |-> backing, valid |-> Min(backing.len, UnwrapOr(valid, 0))]

\* WebSocketPacket::len
PacketLen(p) == p.valid

\* a view whose length is rounded up to cover a trailing partial element
AsSliceLenRoundedUp(p, s) == (PacketLen(p) + s - 1) \div s

\* WebSocketPacket::as_slice::<T>: number of elements of the slice, s being
\* core::mem::size_of::<T>()
AsSliceLen(p, s) == PacketLen(p) \div s

\* WebSocketPacket::as_slice_mut::<T>
AsSliceMutLen(p, s) == PacketLen(p) \div s

\* No view taken yet of packet p.
NoSlice(p) == [packet |-> p, call |-> "none", size |-> 0, len |-> 0]

\* Results xous::unmap_memory can give for a range.  Unmapping a range that
\* was already unmapped is a double release: the kernel may refuse it (Err)
\* or, when the address has been handed out again meanwhile, accept it (Ok).
UnmapResults(range) == IF unmaps[range.addr] = 0 THEN {"Ok"} ELSE {"Ok", "Err"}

\* Items of channel c, in the order they went through it: those the consumer
\* has received, then those still queued.
Items(c) == chan[c].got \o chan[c].queue

\* Effect on the unmap counts of one unmap_memory call for each range in `addrs`.
UnmapAll(addrs) == [b \in Buffers |-> IF b \in addrs THEN unmaps[b] + 1 ELSE unmaps[b]]

\* ------------------------------------------------------------------- Init
Init ==
    /\ conn = "none"
    /\ svc = <<>>
    /\ thread = <<>>
    /\ receivers = EmptyMap
    /\ lock = "free"
    /\ pc = "unspawned"
    /\ fault = "none"
    /\ nbuf = 0
    /\ buffer = NoBuffer
    /\ response = NoResponse
    /\ target_fd = NoFd
    /\ unmaps = [b \in Buffers |-> 0]
    /\ route = [b \in Buffers |-> "none"]
    /\ chan = <<>>
    /\ slice = NoSlice(WebSocketPacketNew(NoBuffer, <<>>))

\* ------------------------------------------------------- WebSocketService
\* WebSocketService::new, xous::connect succeeds
ServiceNew ==
    /\ conn = "none"
    /\ \E cid \in Cids :
        /\ svc' = <<[receivers |-> "arc1", cid |-> cid]>>
        /\ thread' = Append(thread, [cid |-> cid, receivers |-> "arc1"])
    /\ conn' = "ok"
    /\ pc' = "map"
    /\ UNCHANGED <<receivers, lock, fault, nbuf, buffer, response, target_fd,
                   unmaps, route, chan, slice>>

\* WebSocketService::new, xous::connect fails: .expect panics the caller
ServiceNewFail ==
    /\ conn = "none"
    /\ conn' = "error"
    /\ UNCHANGED <<svc, thread, receivers, lock, pc, fault, nbuf, buffer,
                   response, target_fd, unmaps, route, chan, slice>>

\* #[derive(Clone)] with a thread spawned per clone
CloneSpawning ==
    /\ svc /= <<>>
    /\ Len(svc) <= MaxClones
    /\ \E i \in 1..Len(svc) :
        /\ svc' = Append(svc, svc[i])
        /\ thread' = Append(thread, [cid |-> svc[i].cid, receivers |-> svc[i].receivers])
    /\ UNCHANGED <<conn, receivers, lock, pc, fault, nbuf, buffer, response,
                   target_fd, unmaps, route, chan, slice>>

\* #[derive(Clone)] for WebSocketService: Arc::clone and a copy of the cid
ServiceClone ==
    /\ svc /= <<>>
    /\ Len(svc) <= MaxClones
    /\ \E i \in 1..Len(svc) : svc' = Append(svc, svc[i])
    /\ UNCHANGED <<conn, thread, receivers, lock, pc, fault, nbuf, buffer,
                   response, target_fd, unmaps, route, chan, slice>>

\* ---------------------------------------------------- websocket_poll_thread
Panic(msg) ==
    /\ pc' = "panicked"
    /\ fault' = msg

\* Top of the loop: xous::map_memory(None, None, 4096, R | W) succeeds, the
\* Poll message lends the buffer and xous::send_message blocks the thread.
MapMemory ==
    /\ pc = "map"
    /\ nbuf < MaxBuffers
    /\ nbuf' = nbuf + 1
    /\ buffer' = [addr |-> nbuf + 1, len |-> BufferSize]
    /\ pc' = "blocked"
    /\ UNCHANGED <<conn, svc, thread, receivers, lock, fault, response, target_fd,
                   unmaps, route, chan, slice>>

\* a failed allocation that is reported and tried again
MapMemoryFailRetries ==
    /\ pc = "map"
    /\ fault' = "out of memory"
    /\ UNCHANGED <<conn, svc, thread, receivers, lock, pc, nbuf, buffer, response,
                   target_fd, unmaps, route, chan, slice>>

\* xous::map_memory fails: .expect("out of memory") panics the thread
MapMemoryFail ==
    /\ pc = "map"
    /\ Panic("out of memory")
    /\ UNCHANGED <<conn, svc, thread, receivers, lock, nbuf, buffer, response,
                   target_fd, unmaps, route, chan, slice>>

\* a failed poll call that is reported and followed by the next iteration
SendMessageFailRetries ==
    /\ pc = "blocked"
    /\ fault' = "couldn't send"
    /\ pc' = "map"
    /\ route' = [route EXCEPT ![buffer.addr] = "senderr"]
    /\ UNCHANGED <<conn, svc, thread, receivers, lock, nbuf, buffer, response,
                   target_fd, unmaps, chan, slice>>

\* xous::send_message returns Err: .expect("couldn't send") panics the thread
SendMessageFail ==
    /\ pc = "blocked"
    /\ Panic("couldn't send")
    /\ route' = [route EXCEPT ![buffer.addr] = "senderr"]
    /\ UNCHANGED <<conn, svc, thread, receivers, lock, nbuf, buffer, response,
                   target_fd, unmaps, chan, slice>>

\* Responses the server may give to the lend.  The loop uses the two words of
\* a MemoryReturned independently (offset for the lookup only, valid for the
\* packet length only), so every offset and every valid length occurs, but
\* not every pair of them.
Responses ==
    {r \in [shape : {"MemoryReturned"}, offset : Offsets, valid : Valids] :
        \/ r.offset = <<>> /\ r.valid \in {<<>>, <<42>>}
        \/ r.offset = <<7>> /\ r.valid \in {<<42>>, <<5000>>}
        \/ r.offset = <<65543>> /\ r.valid = <<42>>}
        \cup {[shape |-> "Ok", offset |-> <<>>, valid |-> <<>>]}

\* the conversion written `as u16`: it wraps instead of failing
ToFdTruncating(offset) == TruncU16(UnwrapOr(offset, 0))
\* an absent offset defaulting to another handle
ToFdAbsentSeven(offset) == TryIntoU16(UnwrapOr(offset, 7))

\* offset.map(|o| o.get()).unwrap_or(0).try_into()
ToFd(offset) == TryIntoU16(UnwrapOr(offset, 0))

\* xous::send_message returns `response`; `if let MemoryReturned(offset, valid)`
\* and the construction of target_fd (.unwrap() panics on a failed conversion)
SendMessageReturn ==
    /\ pc = "blocked"
    /\ \E r \in Responses :
        IF r.shape /= "MemoryReturned"
        THEN /\ route' = [route EXCEPT ![buffer.addr] = "malformed"]
             /\ pc' = "map"
             /\ UNCHANGED <<fault, target_fd, response>>
        ELSE IF ToFd(r.offset) = <<>>
        THEN /\ route' = [route EXCEPT ![buffer.addr] = "badfd"]
             /\ Panic("TryFromIntError")
             /\ response' = r
             /\ UNCHANGED target_fd
        ELSE /\ target_fd' = ToFd(r.offset)[1]
             /\ response' = r
             /\ pc' = "lock"
             /\ UNCHANGED <<fault, route>>
    /\ UNCHANGED <<conn, svc, thread, receivers, lock, nbuf, buffer, unmaps, chan,
                   slice>>

\* the lookup done on the map without taking the Mutex
LookupUnlocked ==
    /\ pc = "lock"
    /\ pc' = IF target_fd \in DOMAIN receivers THEN "pipe_send" ELSE "println"
    /\ UNCHANGED <<conn, svc, thread, receivers, lock, fault, nbuf, buffer, response,
                   target_fd, unmaps, route, chan, slice>>

\* receivers.lock().unwrap().get(&target_fd): the guard lives to the end of
\* the `if let ... else` statement
Lookup ==
    /\ pc = "lock"
    /\ lock = "free"
    /\ lock' = "poll"
    /\ pc' = IF target_fd \in DOMAIN receivers THEN "pipe_send" ELSE "println"
    /\ UNCHANGED <<conn, svc, thread, receivers, fault, nbuf, buffer, response,
                   target_fd, unmaps, route, chan, slice>>

\* a channel that puts the new packet in front of the queued ones
PipeSendPrepending ==
    /\ pc = "pipe_send"
    /\ chan[receivers[target_fd]].rx
    /\ chan' = [chan EXCEPT ![receivers[target_fd]].queue =
                    <<[packet |-> WebSocketPacketNew(buffer, response.valid),
                       response |-> response]>> \o @]
    /\ route' = [route EXCEPT ![buffer.addr] = "sent"]
    /\ lock' = "free"
    /\ pc' = "map"
    /\ response' = NoResponse
    /\ target_fd' = NoFd
    /\ UNCHANGED <<conn, svc, thread, receivers, fault, nbuf, buffer, unmaps, slice>>

\* a send whose guard outlives the iteration
PipeSendOkKeepsGuard ==
    /\ pc = "pipe_send"
    /\ chan[receivers[target_fd]].rx
    /\ chan' = [chan EXCEPT ![receivers[target_fd]].queue =
                    Append(@, [packet |-> WebSocketPacketNew(buffer, response.valid),
                               response |-> response])]
    /\ route' = [route EXCEPT ![buffer.addr] = "sent"]
    /\ pc' = "map"
    /\ response' = NoResponse
    /\ target_fd' = NoFd
    /\ UNCHANGED <<conn, svc, thread, receivers, lock, fault, nbuf, buffer, unmaps,
                   slice>>

\* receiver.pipe.send(WebSocketPacket::new(buffer, valid)) returns Ok(()):
\* the packet moves into the channel, `continue` drops the guard.  Each item
\* carries the response it was built from (history, read by the properties only).
PipeSendOk ==
    /\ pc = "pipe_send"
    /\ chan[receivers[target_fd]].rx
    /\ chan' = [chan EXCEPT ![receivers[target_fd]].queue =
                    Append(@, [packet |-> WebSocketPacketNew(buffer, response.valid),
                               response |-> response])]
    /\ route' = [route EXCEPT ![buffer.addr] = "sent"]
    /\ lock' = "free"
    /\ pc' = "map"
    /\ response' = NoResponse
    /\ target_fd' = NoFd
    /\ UNCHANGED <<conn, svc, thread, receivers, fault, nbuf, buffer, unmaps, slice>>

\* a failed send that also removes the dead entry from the map
PipeSendErrRemoving ==
    /\ pc = "pipe_send"
    /\ ~chan[receivers[target_fd]].rx
    /\ unmaps' = UnmapAll({buffer.addr})
    /\ route' = [route EXCEPT ![buffer.addr] = "sendfail"]
    /\ receivers' = [x \in DOMAIN receivers \ {target_fd} |-> receivers[x]]
    /\ lock' = "free"
    /\ pc' = "unmap"
    /\ response' = NoResponse
    /\ target_fd' = NoFd
    /\ UNCHANGED <<conn, svc, thread, fault, nbuf, buffer, chan, slice>>

\* receiver.pipe.send(..) returns Err(SendError(packet)): the receiving end is
\* gone.  The pattern `Ok(())` does not match, the temporary holding the packet
\* is dropped (Drop for WebSocketPacket unmaps the backing), the guard is
\* dropped at the end of the outer `if let`, and control falls through to
\* line 109.
PipeSendErr ==
    /\ pc = "pipe_send"
    /\ ~chan[receivers[target_fd]].rx
    /\ unmaps' = UnmapAll({buffer.addr})
    /\ route' = [route EXCEPT ![buffer.addr] = "sendfail"]
    /\ lock' = "free"
    /\ pc' = "unmap"
    /\ response' = NoResponse
    /\ target_fd' = NoFd
    /\ UNCHANGED <<conn, svc, thread, receivers, fault, nbuf, buffer, chan, slice>>

\* an else branch that goes straight back to the top of the loop
NoSuchFdRestarts ==
    /\ pc = "println"
    /\ route' = [route EXCEPT ![buffer.addr] = "nomatch"]
    /\ lock' = "free"
    /\ pc' = "map"
    /\ response' = NoResponse
    /\ target_fd' = NoFd
    /\ UNCHANGED <<conn, svc, thread, receivers, fault, nbuf, buffer, unmaps, chan,
                   slice>>

\* else branch: println!("Error: got a message for a WebSocketFd that doesn't exist!")
NoSuchFd ==
    /\ pc = "println"
    /\ route' = [route EXCEPT ![buffer.addr] = "nomatch"]
    /\ lock' = "free"
    /\ pc' = "unmap"
    /\ response' = NoResponse
    /\ target_fd' = NoFd
    /\ UNCHANGED <<conn, svc, thread, receivers, fault, nbuf, buffer, unmaps, chan,
                   slice>>

\* line 109 left out: the loop restarts without releasing the buffer
UnmapBufferSkipped ==
    /\ pc = "unmap"
    /\ pc' = "map"
    /\ UNCHANGED <<conn, svc, thread, receivers, lock, fault, nbuf, buffer, response,
                   target_fd, unmaps, route, chan, slice>>

\* xous::unmap_memory(buffer).expect("couldn't free memory")
UnmapBuffer ==
    /\ pc = "unmap"
    /\ unmaps' = UnmapAll({buffer.addr})
    /\ \E r \in UnmapResults(buffer) :
        IF r = "Ok"
        THEN pc' = "map" /\ UNCHANGED fault
        ELSE Panic("couldn't free memory")
    /\ UNCHANGED <<conn, svc, thread, receivers, lock, nbuf, buffer, response,
                   target_fd, route, chan, slice>>

\* ------------------------------------------------ registration and consumers
\* register(handle): create a channel, store its sending end under `handle`
\* (HashMap::insert replaces an entry already there), hand out the receiving end.
Register(h) ==
    /\ svc /= <<>>
    /\ lock = "free"
    /\ Len(chan) < MaxChannels
    /\ chan' = Append(chan, [fd |-> h, rx |-> TRUE, queue |-> <<>>, got |-> <<>>])
    /\ receivers' = [x \in DOMAIN receivers \cup {h} |->
                        IF x = h THEN Len(chan) + 1 ELSE receivers[x]]
    /\ UNCHANGED <<conn, svc, thread, lock, pc, fault, nbuf, buffer, response,
                   target_fd, unmaps, route, slice>>

\* deregister(handle): remove the entry
Deregister(h) ==
    /\ svc /= <<>>
    /\ lock = "free"
    /\ h \in DOMAIN receivers
    /\ receivers' = [x \in DOMAIN receivers \ {h} |-> receivers[x]]
    /\ UNCHANGED <<conn, svc, thread, lock, pc, fault, nbuf, buffer, response,
                   target_fd, unmaps, route, chan, slice>>

\* The consumer of channel c takes the next packet, reads it and lets it go
\* out of scope: Drop for WebSocketPacket unmaps the backing.
Recv(c) ==
    /\ chan[c].rx
    /\ chan[c].queue /= <<>>
    /\ chan' = [chan EXCEPT ![c].queue = Tail(@),
                            ![c].got = Append(@, Head(chan[c].queue))]
    /\ unmaps' = UnmapAll({Head(chan[c].queue).packet.backing.addr})
    /\ UNCHANGED <<conn, svc, thread, receivers, lock, pc, fault, nbuf, buffer,
                   response, target_fd, route, slice>>

\* The consumer drops the receiving end: the channel disconnects and the
\* packets still queued are dropped with it.
DropReceiver(c) ==
    /\ chan[c].rx
    /\ chan' = [chan EXCEPT ![c].rx = FALSE, ![c].queue = <<>>]
    /\ unmaps' = UnmapAll({chan[c].queue[i].packet.backing.addr : i \in 1..Len(chan[c].queue)})
    /\ UNCHANGED <<conn, svc, thread, receivers, lock, pc, fault, nbuf, buffer,
                   response, target_fd, route, slice>>

\* ------------------------------------------------------------ specification
\* The poll thread, the registration side and the consumers of one service.
Next ==
    \/ ServiceNew
    \/ ServiceNewFail
    \/ MapMemory
    \/ MapMemoryFail
    \/ SendMessageFail
    \/ SendMessageReturn
    \/ Lookup
    \/ PipeSendOk
    \/ PipeSendErr
    \/ NoSuchFd
    \/ UnmapBuffer
    \/ \E h \in Handles : Register(h)
    \/ \E h \in Handles : Deregister(h)
    \/ \E c \in 1..Len(chan) : Recv(c)
    \/ \E c \in 1..Len(chan) : DropReceiver(c)

Spec == Init /\ [][Next]_vars

\* The service handle and its clones next to the poll thread, with nothing
\* registered.
NextService ==
    \/ ServiceNew
    \/ ServiceNewFail
    \/ ServiceClone
    \/ MapMemory
    \/ MapMemoryFail
    \/ SendMessageFail
    \/ SendMessageReturn
    \/ Lookup
    \/ NoSuchFd
    \/ UnmapBuffer

SpecService == Init /\ [][NextService]_vars

\* --------------------------------------------------------- typed views
\* Lengths of the backing ranges, reported valid lengths and element sizes
\* (core::mem::size_of::<T>()) the typed views are taken with.
BackingLens == {0, 1, 10, 100, 4096}
SliceValids == {<<>>, <<1>>, <<3>>, <<7>>, <<42>>, <<4095>>, <<4096>>, <<5000>>}
ElemSizes == {1, 2, 3, 4, 8}

\* A packet built by WebSocketPacket::new, no view taken of it yet.
InitSlice ==
    /\ conn = "none"
    /\ svc = <<>>
    /\ thread = <<>>
    /\ receivers = EmptyMap
    /\ lock = "free"
    /\ pc = "unspawned"
    /\ fault = "none"
    /\ nbuf = 0
    /\ buffer = NoBuffer
    /\ response = NoResponse
    /\ target_fd = NoFd
    /\ unmaps = [b \in Buffers |-> 0]
    /\ route = [b \in Buffers |-> "none"]
    /\ chan = <<>>
    /\ \E n \in BackingLens : \E v \in SliceValids :
          slice = NoSlice(WebSocketPacketNew([addr |-> 1, len |-> n], v))

\* packet.as_slice::<T>() with size_of::<T>() = s
AsSlice(s) ==
    /\ slice' = [packet |-> slice.packet, call |-> "as_slice", size |-> s,
                 len |-> AsSliceLen(slice.packet, s)]
    /\ UNCHANGED <<conn, svc, thread, receivers, lock, pc, fault, nbuf, buffer,
                   response, target_fd, unmaps, route, chan>>

\* packet.as_slice_mut::<T>() with size_of::<T>() = s
AsSliceMut(s) ==
    /\ slice' = [packet |-> slice.packet, call |-> "as_slice_mut", size |-> s,
                 len |-> AsSliceMutLen(slice.packet, s)]
    /\ UNCHANGED <<conn, svc, thread, receivers, lock, pc, fault, nbuf, buffer,
                   response, target_fd, unmaps, route, chan>>

NextSlice ==
    \/ \E s \in ElemSizes : AsSlice(s)
    \/ \E s \in ElemSizes : AsSliceMut(s)

SpecSlice == InitSlice /\ [][NextSlice]_vars

\* ------------------------------------------------------------- properties
Channels == 1..Len(chan)

\* Positions of the items of channel c.
Pos(c) == 1..Len(Items(c))

\* Number of items, over all channels, whose packet wraps the range `b`.
Copies(b) ==
    Cardinality({<<c, i>> \in Channels \X (1..MaxBuffers) :
                    i \in Pos(c) /\ Items(c)[i].packet.backing.addr = b})

\* C1: no buffer is unmapped more than once, whichever branch its iteration
\* took, counting the unmap of line 109 and the unmap done by Drop.
C1_ReleasedAtMostOnce == \A b \in Buffers : unmaps[b] <= 1

\* C2: when the loop is back at its top, the buffer of the iteration that just
\* ended has been unmapped or has been handed to a channel.
C2_NoLeakAtRestart ==
    (pc = "map" /\ buffer /= NoBuffer) =>
        (unmaps[buffer.addr] >= 1 \/ route[buffer.addr] = "sent")

\* C3: an iteration whose send failed (receiving end gone) ends like one for
\* an unregistered handle: the thread does not die releasing the buffer, and
\* the buffer is released once.
C3_SendFailureRecovers ==
    (buffer /= NoBuffer /\ route[buffer.addr] = "sendfail") =>
        (fault /= "couldn't free memory" /\ unmaps[buffer.addr] <= 1)

\* C4: when the looked-up handle is not in the map, the else branch is taken
\* under the lock, no channel gets a packet for that buffer, the buffer is
\* unmapped exactly once (by line 109) and the thread goes back to the top of
\* the loop; only a failing allocation of the next buffer can stop it there.
C4_UnmatchedHandle ==
    /\ pc = "println" => target_fd \notin DOMAIN receivers
    /\ \A b \in Buffers : route[b] = "nomatch" =>
        /\ Copies(b) = 0
        /\ unmaps[b] = IF pc = "unmap" /\ buffer.addr = b THEN 0 ELSE 1
        /\ buffer.addr = b =>
              \/ pc \in {"unmap", "map"} /\ fault = "none"
              \/ pc = "panicked" /\ fault = "out of memory"

\* C4 witness: the first response was unmatched and its buffer released, and
\* the response after it was delivered.
C4_Witness ==
    /\ MaxBuffers >= 2
    /\ route[1] = "nomatch" /\ unmaps[1] = 1
    /\ route[2] = "sent" /\ Copies(2) = 1

\* C5: a send into the channel registered under the target handle, with its
\* receiving end alive, adds exactly one packet at the end of that channel and
\* touches no other channel; the packet wraps the buffer of the iteration and
\* its len() is min(v, 4096), v the reported valid length or 0 when absent.
\* No buffer is ever in two places.
C5_DeliveredOnceWithLength ==
    /\ [][(pc = "pipe_send" /\ pc' /= pc /\ chan[receivers[target_fd]].rx) =>
            LET c == receivers[target_fd]
                v == UnwrapOr(response.valid, 0)
            IN  /\ chan[c].fd = target_fd
                /\ Len(chan'[c].queue) = Len(chan[c].queue) + 1
                /\ Len(chan') = Len(chan)
                /\ \A d \in Channels \ {c} : chan'[d] = chan[d]
                /\ \A i \in 1..Len(chan[c].queue) : chan'[c].queue[i] = chan[c].queue[i]
                /\ chan'[c].got = chan[c].got
                /\ LET p == chan'[c].queue[Len(chan'[c].queue)].packet
                   IN  /\ p.backing = buffer
                       /\ PacketLen(p) = IF v <= BufferSize THEN v ELSE BufferSize]_vars
    /\ [](\A b \in Buffers : Copies(b) <= 1)

\* C5 witness: the consumer of handle 7 has received one packet, built from a
\* response with valid length 42, and its len() is 42.
C5_Witness ==
    \E c \in Channels :
        /\ chan[c].fd = 7
        /\ Len(chan[c].got) = 1
        /\ chan[c].got[1].response.valid = <<42>>
        /\ PacketLen(chan[c].got[1].packet) = 42

\* C6: the items of a channel, received or queued, are in the order of the
\* responses they were built from (each response has its own buffer, numbered
\* in the order of the poll calls): no reordering, no duplicate.
C6_PerHandleFifo ==
    \A c \in Channels : \A i, j \in Pos(c) :
        i < j => Items(c)[i].packet.backing.addr < Items(c)[j].packet.backing.addr

\* C6 witness: a consumer has received two packets.
C6_Witness == \E c \in Channels : Len(chan[c].got) >= 2

\* C7: every item of the channel created for handle B was built from a
\* response whose target handle (0 when absent) is B.
C7_Isolation ==
    \A c \in Channels : \A i \in Pos(c) :
        UnwrapOr(Items(c)[i].response.offset, 0) = chan[c].fd

\* C7 witness: two channels for different handles hold one packet each.
C7_Witness ==
    \E c, d \in Channels :
        /\ chan[c].fd /= chan[d].fd
        /\ Len(Items(c)) = 1
        /\ Len(Items(d)) = 1

\* C8: the valid length stored in a packet is the smaller of the length of
\* its backing range and the reported valid length (0 when absent), so it
\* never exceeds the backing range.
C8_ValidClamped ==
    \A c \in Channels : \A i \in Pos(c) :
        LET p == Items(c)[i].packet
            v == UnwrapOr(Items(c)[i].response.valid, 0)
        IN  /\ p.valid <= p.backing.len
            /\ p.valid <= v
            /\ p.valid = p.backing.len \/ p.valid = v

\* C8 witness: a packet built from a reported valid length above the buffer size.
C8_Witness ==
    \E c \in Channels : \E i \in Pos(c) :
        /\ UnwrapOr(Items(c)[i].response.valid, 0) > BufferSize
        /\ Items(c)[i].packet.valid = BufferSize

\* C9: whatever target handle a MemoryReturned response carries, the thread
\* does not die converting it.
C9_AnyTargetNonFatal == fault /= "TryFromIntError"

\* C10: one thread is spawned by new() and none by clone(); every handle,
\* original or clone, holds the Arc and the cid the thread was given.
C10_SpawnedOnce ==
    /\ conn = "ok" =>
        /\ Len(thread) = 1
        /\ svc /= <<>>
        /\ \A i \in 1..Len(svc) :
            /\ svc[i].receivers = thread[1].receivers
            /\ svc[i].cid = thread[1].cid
    /\ conn /= "ok" => thread = <<>> /\ svc = <<>> /\ pc = "unspawned"

\* C10 witness: the handle has been cloned while the thread runs.
C10_Witness == Len(svc) >= 2 /\ Len(thread) = 1 /\ pc = "blocked"


\* Latest channel created for handle h (0 when there is none).
LatestChannel(h) ==
    IF \E c \in Channels : chan[c].fd = h
    THEN CHOOSE c \in Channels : chan[c].fd = h /\ \A d \in Channels : chan[d].fd = h => d <= c
    ELSE 0

\* C11: the map keeps one entry per handle and every entry is the sending end
\* of the latest channel registered for its handle; an entry appears or is
\* replaced only by a step that creates the channel for that handle, and
\* disappears only by a step of the registration side; these steps happen
\* with the Mutex free, and what the poll thread's lookup found stays true
\* while it holds the guard.
C11_RegistryConsistent ==
    /\ [](\A h \in DOMAIN receivers :
            /\ h \in Handles
            /\ receivers[h] = LatestChannel(h))
    /\ [](pc = "pipe_send" => lock = "poll" /\ target_fd \in DOMAIN receivers)
    /\ [](pc = "println" => lock = "poll" /\ target_fd \notin DOMAIN receivers)
    /\ [][\A h \in Handles :
            /\ (h \in DOMAIN receivers' /\
                  (h \notin DOMAIN receivers \/ receivers'[h] /= receivers[h])) =>
                  /\ lock = "free" /\ lock' = "free"
                  /\ Len(chan') = Len(chan) + 1
                  /\ chan'[Len(chan')].fd = h
                  /\ receivers'[h] = Len(chan')
                  /\ \A g \in DOMAIN receivers \ {h} :
                        g \in DOMAIN receivers' /\ receivers'[g] = receivers[g]
            /\ (h \in DOMAIN receivers /\ h \notin DOMAIN receivers') =>
                  /\ lock = "free" /\ lock' = "free"
                  /\ UNCHANGED <<pc, chan, unmaps, route>>
                  /\ \A g \in DOMAIN receivers \ {h} :
                        g \in DOMAIN receivers' /\ receivers'[g] = receivers[g]]_vars

\* C11 witness: handle 7 was registered and deregistered, handle 0 was
\* registered after it and is still there, and the poll thread holds the guard
\* for a lookup that found handle 0.
C11_Witness ==
    /\ Len(chan) = 2
    /\ DOMAIN receivers = {0}
    /\ chan[1].fd = 7 /\ chan[2].fd = 0
    /\ pc = "pipe_send"
    /\ target_fd = 0


\* What a step may do to the items of the channels when the poll thread takes
\* no part in it: the consumer of a channel receives the head of its queue, or
\* drops its receiving end with what is queued; nothing is added or changed.
OnlyConsumersAct ==
    /\ Len(chan') >= Len(chan)
    /\ \A c \in Channels :
        \/ chan'[c].got \o chan'[c].queue = Items(c)
        \/ /\ chan[c].rx /\ ~chan'[c].rx
           /\ chan'[c].got = chan[c].got
           /\ chan'[c].queue = <<>>

\* C12: the step at which map_memory fails ends the thread and touches nothing
\* else; from then on the thread maps no buffer and issues no poll, the Mutex
\* is free for the rest of the process, and the packets delivered before stay
\* in their channels until their consumers take or drop them.
C12_AllocFailureStopsLoop ==
    /\ [][(fault' = "out of memory" /\ fault /= "out of memory") =>
            /\ pc = "map" /\ pc' = "panicked"
            /\ UNCHANGED <<nbuf, buffer, receivers, lock, unmaps, route, chan>>]_vars
    /\ [][fault = "out of memory" =>
            /\ pc' = "panicked" /\ fault' = fault
            /\ UNCHANGED <<nbuf, buffer, route, lock>>
            /\ OnlyConsumersAct]_vars
    /\ [](fault = "out of memory" => pc = "panicked" /\ lock = "free")

\* C12 witness: two responses were delivered, the third allocation failed, and
\* a consumer has taken a packet while the other packet is still queued.
C12_Witness ==
    /\ fault = "out of memory"
    /\ nbuf = 2
    /\ route[1] = "sent" /\ route[2] = "sent"
    /\ \E c, d \in Channels : Len(chan[c].got) = 1 /\ Len(chan[d].queue) = 1


\* Number of holders of the range `b`: the poll thread while its `buffer` is
\* in scope after the poll call returned, the server while the buffer is lent,
\* and every queued packet that wraps it.
Holders(b) ==
    (IF buffer.addr = b /\ pc \in {"lock", "pipe_send", "println", "unmap"} THEN 1 ELSE 0)
    + (IF buffer.addr = b /\ pc = "blocked" THEN 1 ELSE 0)
    + Cardinality({<<c, i>> \in Channels \X (1..MaxBuffers) :
                      i \in 1..Len(chan[c].queue)
                      /\ chan[c].queue[i].packet.backing.addr = b})

\* C13: while the poll thread runs, every mapped buffer that has not been
\* released has exactly one holder, and a released buffer has none (so nobody
\* is left to read, re-lend or release it).
C13_ExclusiveOwnership ==
    pc /= "panicked" =>
        \A b \in 1..nbuf :
            /\ unmaps[b] = 0 => Holders(b) = 1
            /\ unmaps[b] >= 1 => Holders(b) = 0


\* C14: the poll thread holds the Mutex only between its lookup and the end of
\* the `if let` statement; while it is blocked in the poll call (and anywhere
\* else in the loop) the Mutex is free for the registration side.
C14_LockFreeWhileBlocked ==
    /\ pc = "blocked" => lock = "free"
    /\ lock = "poll" => pc \in {"pipe_send", "println"}

\* C14 witness: the thread is blocked in its second poll call after an
\* iteration that took the Mutex and sent a packet, with a handle registered
\* meanwhile.
C14_Witness ==
    /\ pc = "blocked"
    /\ nbuf = 2
    /\ route[1] = "sent"
    /\ lock = "free"
    /\ Len(chan) = 2


C16_ConnectionLossStopsLoop ==
    /\ [][(fault' = "couldn't send" /\ fault /= "couldn't send") =>
            /\ pc = "blocked" /\ pc' = "panicked"
            /\ UNCHANGED <<nbuf, buffer, receivers, lock, unmaps, chan>>]_vars
    /\ [][fault = "couldn't send" =>
            /\ pc' = "panicked" /\ fault' = fault
            /\ UNCHANGED <<nbuf, buffer, route, lock>>
            /\ OnlyConsumersAct]_vars
    /\ [](fault = "couldn't send" =>
            /\ pc = "panicked"
            /\ Copies(buffer.addr) = 0
            /\ \A c \in Channels : \A i \in Pos(c) :
                  Items(c)[i].response.shape = "MemoryReturned")

\* C16 witness: the first response was delivered and is still queued, and the
\* second poll call failed.
C16_Witness ==
    /\ fault = "couldn't send"
    /\ nbuf = 2
    /\ route[1] = "sent" /\ route[2] = "senderr"
    /\ \E c \in Channels : Len(chan[c].queue) = 1


\* C17: a MemoryReturned response without a target handle is looked up as
\* handle 0: the send goes to the channel registered under 0 when there is
\* one, the else branch is taken when there is none, and every packet built
\* from such a response is in a channel created for handle 0.
C17_AbsentTargetIsZero ==
    /\ (pc \in {"lock", "pipe_send", "println"} /\ response.offset = <<>>) =>
        /\ target_fd = 0
        /\ pc = "pipe_send" => 0 \in DOMAIN receivers /\ chan[receivers[0]].fd = 0
        /\ pc = "println" => 0 \notin DOMAIN receivers
    /\ \A c \in Channels : \A i \in Pos(c) :
        Items(c)[i].response.offset = <<>> => chan[c].fd = 0

\* C17 witness: the consumer of handle 0 has received a packet built from a
\* response without a target handle, and a later such response, with handle 0
\* deregistered, is on the else branch.
C17_Witness ==
    /\ \E c \in Channels :
        /\ chan[c].fd = 0
        /\ Len(chan[c].got) = 1
        /\ chan[c].got[1].response.offset = <<>>
    /\ pc = "println"
    /\ response.offset = <<>>
    /\ 0 \notin DOMAIN receivers


\* C18: a typed view of element size s >= 1 has floor(valid / s) elements:
\* its bytes fit in the valid data with less than one element left over, and
\* the valid data fit in the backing range.
C18_ViewWithinValid ==
    slice.call /= "none" =>
        /\ slice.size >= 1
        /\ slice.len >= 0
        /\ slice.len * slice.size <= slice.packet.valid
        /\ slice.packet.valid < (slice.len + 1) * slice.size
        /\ slice.packet.valid <= slice.packet.backing.len

\* C18 witness: a mutable view with 4-byte elements of a packet with 42 valid
\* bytes has 10 elements.
C18_Witness ==
    /\ slice.call = "as_slice_mut"
    /\ slice.size = 4
    /\ slice.packet.valid = 42
    /\ slice.len = 10


\* C19: every step of the poll thread leaves the map as it is; a send that
\* fails because the receiving end is gone takes the failed-send branch and
\* leaves the entry in place, and a receiving end that is gone stays gone, so
\* later responses for that handle fail the same way.
C19_PollLeavesRegistry ==
    /\ [][pc' /= pc => receivers' = receivers]_vars
    /\ [][(pc = "pipe_send" /\ pc' /= pc /\ ~chan[receivers[target_fd]].rx) =>
            /\ pc' = "unmap"
            /\ route'[buffer.addr] = "sendfail"
            /\ target_fd \in DOMAIN receivers'
            /\ receivers'[target_fd] = receivers[target_fd]
            /\ chan' = chan]_vars
    /\ [][\A c \in Channels : ~chan[c].rx => ~chan'[c].rx]_vars

\* C19 witness: two responses in a row for a handle whose receiving end is
\* gone both took the failed-send branch, and the handle is still registered.
C19_Witness ==
    /\ nbuf = 2
    /\ route[1] = "sendfail" /\ route[2] = "sendfail"
    /\ \E h \in DOMAIN receivers : ~chan[receivers[h]].rx

====
